---- MODULE Spec2Model ----
(***************************************************************************)
(* Command execution and caching pipeline of ALPM-GUI (src/app.py):        *)
(* CommandRunner.run / CommandRunner._execute, the Tk dispatch queue that  *)
(* receives every `self.app.after(0, ...)` post, the PasswordDialog        *)
(* rendezvous, the on-disk cache and App.process_queue's job chain.        *)
(***************************************************************************)
EXTENDS Integers, Sequences, FiniteSets, TLC

VARIABLES
    workers,        \* one record per CommandRunner.run call: its arguments, the
                    \* position of its thread in _execute and the thread's locals
    seen,           \* seen[r]: what the UI thread has dispatched for request r, in order
    uiq,            \* the Tk event queue: calls posted with app.after(0, ...), FIFO
    modal,          \* stack of nested modal event loops (PasswordDialog, messagebox)
    cache,          \* files under Config.CACHE_DIR: cache key -> file content
    busy,           \* widgets disabled by App.set_busy
    status,         \* text of the status bar
    package_queue,  \* App.package_queue
    jobs,           \* the list `jobs` closed over by run_next_job
    chain,          \* "none", "running", "complete": progress of process_queue's chain
    dlog            \* text appended to the ProcessDialog of the chain

vars == <<workers, seen, uiq, modal, cache, busy, status, package_queue, jobs, chain, dlog>>

----------------------------------------------------------------------------
(* Bounds of the model *)

\* lines a process prints before it closes its output
MaxLines == 1

----------------------------------------------------------------------------
(* Values *)

\* Python's None for a str-typed value (cache_key, source, password)
NoValue == "<None>"

\* Optional[str] for texts: None is <<>>, a text T is <<T>>
NoText == <<>>
Some(T) == <<T>>
TheText(o) == o[1]

\* What a process can write on its merged stdout/stderr, one chunk per readline()
RawLines == {"pkg 1.0<CR><LF>", " <LF>", "sudo: 1 incorrect password attempt<LF>"}

\* text=True opens the pipe (and open(..., 'r') the cache file) in universal
\* newlines mode: a line ending <CR> or <CR><LF> is read as ending <LF>
UniversalNewlines(line) ==
    IF line = "pkg 1.0<CR><LF>" THEN "pkg 1.0<LF>" ELSE line

\* the pipe of Popen(..., text=True): what readline() returns for a raw line
PipeDecode_Raw(raw) == raw
PipeDecode(raw) == UniversalNewlines(raw)

\* str.strip() of one line is empty
IsSpace(line) == line = " <LF>"

\* "incorrect password" in line
HasMarker(line) == line = "sudo: 1 incorrect password attempt<LF>"

\* "".join(full_output): the text is the lines in order
RECURSIVE Join(_)
Join(lines) ==
    IF lines = <<>> THEN <<>> ELSE <<Head(lines)>> \o Join(Tail(lines))

\* output_str.strip() is the empty string
StripIsEmpty(text) == \A i \in 1..Len(text) : IsSpace(text[i])

\* "incorrect password" in output_str
ContainsMarker(text) == \E i \in 1..Len(text) : HasMarker(text[i])

\* a write that loses the last line of the text
FileWrite_DropsLastLine(text) == SubSeq(text, 1, Len(text) - 1)

\* f.write(output_str) with newline=None on Linux: os.linesep is <LF>, written as is
FileWrite(text) == text

\* the length in bytes of a line as written to the file
Bytes(line) ==
    IF line = " <LF>" THEN 2
    ELSE IF line = "sudo: 1 incorrect password attempt<LF>" THEN 35
    ELSE IF line = "<rest of a longer text>" THEN 1
    ELSE 8

RECURSIVE Size(_)
Size(text) == IF text = <<>> THEN 0 ELSE Bytes(Head(text)) + Size(Tail(text))

\* f.write(text) and close on a descriptor opened with 'w', its offset at 0,
\* when the file holds `content` by then (empty since this writer's own open,
\* unless another writer of the same file wrote in between): the bytes of
\* text replace the first bytes of the file and any bytes past them stay
Overlay(text, content) ==
    IF Size(text) >= Size(content) THEN text
    ELSE text \o <<"<rest of a longer text>">>

\* f.read() with newline=None: universal newlines translation of what is on disk
FileRead_FirstLine(content) == SubSeq(content, 1, 1)
FileRead(content) == [i \in 1..Len(content) |-> UniversalNewlines(content[i])]

\* cache keys the callers pass (f"installed_{source}.cache", "pacman_groups.cache")
Keys == {"installed_pacman.cache", "pacman_groups.cache"}

\* what the user may type in the PasswordDialog entry
Secrets == {"hunter2"}

----------------------------------------------------------------------------
(* Calls posted to the UI thread with self.app.after(0, f, args) *)

Msg(op, r, flag, kind, text) ==
    [op |-> op, req |-> r, flag |-> flag, kind |-> kind, text |-> text]

SetBusyMsg(r, b)        == Msg("set_busy", r, b, "", <<>>)
StatusMsg(r, kind, txt) == Msg("update_status", r, FALSE, kind, txt)
ConsoleMsg(r, kind, txt) == Msg("log_to_console", r, FALSE, kind, txt)
LogMsg(r, txt)          == Msg("log_callback", r, FALSE, "", txt)
AlertMsg(r, kind)       == Msg("showerror", r, FALSE, kind, <<>>)
PromptMsg(r)            == Msg("get_password", r, FALSE, "", <<>>)
CallbackMsg(r, txt, source) == Msg("callback", r, FALSE, source, txt)

\* the texts of the messages built in _execute
CancelledText  == "Sudo command cancelled: No password provided."
IncorrectText  == "Error: Incorrect password for sudo."
ExitCodeText   == "Process exited with code"
NotFoundText   == "Error: Command not found"
UnexpectedText == "An unexpected error occurred"

----------------------------------------------------------------------------
(* CommandRunner.run: one thread per call, started on _execute *)

NewWorker(command, callback, log_callback, source, cache_key, force_refresh, requires_sudo, set_global_busy) ==
    [ command |-> command, callback |-> callback, log_callback |-> log_callback,
      source |-> source, cache_key |-> cache_key, force_refresh |-> force_refresh,
      requires_sudo |-> requires_sudo, set_global_busy |-> set_global_busy,
      pc |-> "start",
      password |-> NoValue, password_ref |-> NoValue, password_event |-> FALSE,
      output_str |-> NoText, full_output |-> <<>>, returncode |-> 0,
      argv |-> <<>>, spawned |-> 0, stdin |-> <<>>, stdin_open |-> FALSE,
      raised |-> "", path |-> "", stored |-> FALSE ]

\* run starting a second thread on the same request
Run_StartsTwice(ws, sn, new) ==
    /\ workers' = ws \o new \o new
    /\ seen' = sn \o [i \in 1..(2 * Len(new)) |-> <<>>]

\* CommandRunner.run for each worker of `new`, in order: the threads are
\* started and run returns
Run(ws, sn, new) ==
    /\ workers' = ws \o new
    /\ seen' = sn \o [i \in 1..Len(new) |-> <<>>]

Requests == 1..Len(workers)

\* `if not password`: None and the empty string are both falsy
NotPassword_OnlyEmpty(p) == p = ""
NotPassword_OnlyNone(p) == p = NoValue
NotPassword(p) == p = NoValue \/ p = ""

\* `if callback and output_str is not None: after(0, lambda: callback(output_str, source))`
PostCallback_NoNoneTest(q, r, w, out) ==
    IF w.callback # NoValue
    THEN Append(q, CallbackMsg(r, IF out = NoText THEN <<>> ELSE TheText(out), w.source))
    ELSE q
PostCallback(q, r, w, out) ==
    IF w.callback # NoValue /\ out # NoText
    THEN Append(q, CallbackMsg(r, TheText(out), w.source))
    ELSE q

\* `if set_global_busy: after(0, set_busy, False)`
PostIdle(q, r, w) ==
    IF w.set_global_busy THEN Append(q, SetBusyMsg(r, FALSE)) ELSE q

\* the sink call put ahead of the calls already waiting
PostLog_Front(q, r, w, txt) ==
    IF w.log_callback THEN <<LogMsg(r, txt)>> \o q ELSE q

\* `if log_callback: after(0, log_callback, line)`
PostLog(q, r, w, txt) ==
    IF w.log_callback THEN Append(q, LogMsg(r, txt)) ELSE q

\* the end of _execute: completion callback, then busy cleared
Finish(q, r, w, out) == PostIdle(PostCallback(q, r, w, out), r, w)

\* the end of the execution branch: terminal status, then the end of _execute
FinishRun(q, r, w, out) ==
    Finish(Append(q, StatusMsg(r, "Ready", <<>>)), r, w, out)

\* the condition of the cache branch
CacheHit_IgnoresForce(w) ==
    /\ w.cache_key # NoValue
    /\ cache[w.cache_key] # NoText
CacheHit(w) ==
    /\ w.cache_key # NoValue
    /\ cache[w.cache_key] # NoText
    /\ ~w.force_refresh

\* `if cache_path and output_str.strip()`
ShouldStore_NoStripTest(w, text) == w.cache_key # NoValue
ShouldStore(w, text) == w.cache_key # NoValue /\ ~StripIsEmpty(text)

UNCHANGED_UI == UNCHANGED <<seen, modal, busy, status, package_queue, jobs, chain, dlog>>

\* _execute keeping the secret of an earlier request instead of asking again
WStart_ReusesPassword(r) ==
    LET w == workers[r]
        q1 == IF w.set_global_busy THEN Append(uiq, SetBusyMsg(r, TRUE)) ELSE uiq
        known == {r0 \in 1..(r - 1) : workers[r0].password_event}
    IN  /\ w.pc = "start"
        /\ IF w.requires_sudo /\ known # {}
           THEN /\ uiq' = q1
                /\ workers' = [workers EXCEPT
                      ![r].pc = "wait_password",
                      ![r].password_ref = workers[CHOOSE r0 \in known : TRUE].password_ref,
                      ![r].password_event = TRUE]
           ELSE IF w.requires_sudo
                THEN /\ uiq' = Append(q1, PromptMsg(r))
                     /\ workers' = [workers EXCEPT ![r].pc = "wait_password"]
                ELSE /\ uiq' = q1
                     /\ workers' = [workers EXCEPT ![r].pc = "check_cache"]
        /\ UNCHANGED cache
        /\ UNCHANGED_UI

\* Thread start to the first blocking point: busy posted, then the password
\* prompt is posted when the request is elevated.
WStart(r) ==
    LET w == workers[r]
        q1 == IF w.set_global_busy THEN Append(uiq, SetBusyMsg(r, TRUE)) ELSE uiq
    IN  /\ w.pc = "start"
        /\ IF w.requires_sudo
           THEN /\ uiq' = Append(q1, PromptMsg(r))
                /\ workers' = [workers EXCEPT ![r].pc = "wait_password"]
           ELSE /\ uiq' = q1
                /\ workers' = [workers EXCEPT ![r].pc = "check_cache"]
        /\ UNCHANGED cache
        /\ UNCHANGED_UI

\* the secret given to sudo on its command line instead of its input
WPassword_SecretInCommand(r) ==
    LET w == workers[r]
        pw == w.password_ref
        q1 == Append(uiq, ConsoleMsg(r, CancelledText, <<>>))
        q2 == PostLog(q1, r, w, <<CancelledText \o "<LF>">>)
        q3 == PostIdle(q2, r, w)
        q4 == IF w.callback # NoValue
              THEN Append(q3, CallbackMsg(r, <<>>, w.source)) ELSE q3
    IN  /\ w.pc = "wait_password"
        /\ w.password_event
        /\ IF NotPassword(pw)
           THEN /\ uiq' = q4
                /\ workers' = [workers EXCEPT ![r].pc = "done",
                                              ![r].password = pw,
                                              ![r].path = "cancelled"]
           ELSE /\ uiq' = uiq
                /\ workers' = [workers EXCEPT ![r].pc = "check_cache",
                                              ![r].password = pw,
                                              ![r].command = <<"sudo", "-S", "-p", pw>> \o w.command]
        /\ UNCHANGED cache
        /\ UNCHANGED_UI

\* password_event.wait() returns; the worker reads password_ref[0]
WPassword(r) ==
    LET w == workers[r]
        pw == w.password_ref
        q1 == Append(uiq, ConsoleMsg(r, CancelledText, <<>>))
        q2 == PostLog(q1, r, w, <<CancelledText \o "<LF>">>)
        q3 == PostIdle(q2, r, w)
        q4 == IF w.callback # NoValue
              THEN Append(q3, CallbackMsg(r, <<>>, w.source)) ELSE q3
    IN  /\ w.pc = "wait_password"
        /\ w.password_event
        /\ IF NotPassword(pw)
           THEN /\ uiq' = q4
                /\ workers' = [workers EXCEPT ![r].pc = "done",
                                              ![r].password = pw,
                                              ![r].path = "cancelled"]
           ELSE /\ uiq' = uiq
                /\ workers' = [workers EXCEPT ![r].pc = "check_cache",
                                              ![r].password = pw,
                                              ![r].command = <<"sudo", "-S">> \o w.command]
        /\ UNCHANGED cache
        /\ UNCHANGED_UI

\* the cache branch: the file is read whole, sent once to the sink, and the
\* worker runs to its end
WCacheHit(r) ==
    LET w == workers[r]
        txt == FileRead(TheText(cache[w.cache_key]))
        q1 == PostLog(uiq, r, w, txt)
        q2 == Append(q1, StatusMsg(r, "Ready (from cache)", <<>>))
    IN  /\ w.pc = "check_cache"
        /\ CacheHit(w)
        /\ uiq' = Finish(q2, r, w, Some(txt))
        /\ workers' = [workers EXCEPT ![r].pc = "done",
                                      ![r].output_str = Some(txt),
                                      ![r].path = "cache"]
        /\ UNCHANGED cache
        /\ UNCHANGED_UI

\* open()/read() of the cache file raises (unreadable file, undecodable bytes):
\* the cache branch is outside any try, the thread ends with the exception
WCacheReadError(r) ==
    LET w == workers[r]
    IN  /\ w.pc = "check_cache"
        /\ CacheHit(w)
        /\ workers' = [workers EXCEPT ![r].pc = "crashed", ![r].path = "cache",
                                      ![r].raised = "read: Exception"]
        /\ UNCHANGED <<uiq, cache>>
        /\ UNCHANGED_UI

\* the worker writing the status bar itself instead of posting the call
WMiss_DirectStatus(r) ==
    LET w == workers[r]
        q2 == Append(uiq, ConsoleMsg(r, "Running", w.command))
    IN  /\ w.pc = "check_cache"
        /\ ~CacheHit(w)
        /\ uiq' = q2
        /\ status' = "Running"
        /\ workers' = [workers EXCEPT ![r].pc = "spawn", ![r].path = "exec"]
        /\ UNCHANGED cache
        /\ UNCHANGED <<seen, modal, busy, package_queue, jobs, chain, dlog>>

\* the execution branch up to Popen: running status and console line
WMiss(r) ==
    LET w == workers[r]
        q1 == Append(uiq, StatusMsg(r, "Running", w.command))
        q2 == Append(q1, ConsoleMsg(r, "Running", w.command))
    IN  /\ w.pc = "check_cache"
        /\ ~CacheHit(w)
        /\ uiq' = q2
        /\ workers' = [workers EXCEPT ![r].pc = "spawn", ![r].path = "exec"]
        /\ UNCHANGED cache
        /\ UNCHANGED_UI

\* Popen raises FileNotFoundError
WSpawnNotFound(r) ==
    LET w == workers[r]
        q1 == Append(uiq, ConsoleMsg(r, NotFoundText, <<w.command[1]>>))
        q2 == Append(q1, AlertMsg(r, "Command Not Found"))
    IN  /\ w.pc = "spawn"
        /\ uiq' = FinishRun(q2, r, w, w.output_str)
        /\ workers' = [workers EXCEPT ![r].pc = "done",
                                      ![r].raised = "Popen: FileNotFoundError"]
        /\ UNCHANGED cache
        /\ UNCHANGED_UI

\* `except Exception`: console line, sink line
Unexpected(q, r, w) ==
    PostLog(Append(q, ConsoleMsg(r, UnexpectedText, <<>>)), r, w,
            <<UnexpectedText \o "<LF>">>)

\* Popen raises another exception (PermissionError, OSError)
WSpawnError(r) ==
    LET w == workers[r]
    IN  /\ w.pc = "spawn"
        /\ uiq' = FinishRun(Unexpected(uiq, r, w), r, w, w.output_str)
        /\ workers' = [workers EXCEPT ![r].pc = "done",
                                      ![r].raised = "Popen: Exception"]
        /\ UNCHANGED cache
        /\ UNCHANGED_UI

\* the BrokenPipeError of the password write reaching `except Exception`
WSpawn_WriteFailureRaises(r, delivered) ==
    LET w == workers[r]
    IN  /\ w.pc = "spawn"
        /\ delivered \/ ~NotPassword(w.password)
        /\ uiq' = IF delivered THEN uiq
                  ELSE FinishRun(Unexpected(uiq, r, w), r, w, w.output_str)
        /\ workers' = [workers EXCEPT
              ![r].pc = IF delivered THEN "read" ELSE "done",
              ![r].spawned = w.spawned + 1,
              ![r].argv = w.command,
              ![r].stdin_open = TRUE,
              ![r].raised = IF delivered THEN w.raised ELSE "write: BrokenPipeError",
              ![r].stdin = IF ~NotPassword(w.password) /\ delivered
                           THEN <<w.password \o "<LF>">> ELSE <<>>]
        /\ UNCHANGED cache
        /\ UNCHANGED_UI

\* Popen returns with stdin=PIPE open; the password and a newline are written to
\* it when there is one (delivered is FALSE when the write raises
\* BrokenPipeError, swallowed); no statement of _execute closes process.stdin
WSpawn(r, delivered) ==
    LET w == workers[r]
    IN  /\ w.pc = "spawn"
        /\ delivered \/ ~NotPassword(w.password)
        /\ workers' = [workers EXCEPT
              ![r].pc = "read",
              ![r].spawned = w.spawned + 1,
              ![r].argv = w.command,
              ![r].stdin_open = TRUE,
              ![r].stdin = IF ~NotPassword(w.password) /\ delivered
                           THEN <<w.password \o "<LF>">> ELSE <<>>]
        /\ UNCHANGED <<uiq, cache>>
        /\ UNCHANGED_UI

\* the read loop keeping a blank line from the sink
WReadLine_BlankNotForwarded(r, raw) ==
    LET w == workers[r]
        line == PipeDecode(raw)
    IN  /\ w.pc = "read"
        /\ Len(w.full_output) < MaxLines
        /\ uiq' = IF IsSpace(line) THEN uiq ELSE PostLog(uiq, r, w, <<line>>)
        /\ workers' = [workers EXCEPT ![r].full_output = Append(w.full_output, line)]
        /\ UNCHANGED cache
        /\ UNCHANGED_UI

\* one iteration of `for line in iter(process.stdout.readline, '')`
WReadLine(r, raw) ==
    LET w == workers[r]
        line == PipeDecode(raw)
    IN  /\ w.pc = "read"
        /\ Len(w.full_output) < MaxLines
        /\ uiq' = PostLog(uiq, r, w, <<line>>)
        /\ workers' = [workers EXCEPT ![r].full_output = Append(w.full_output, line)]
        /\ UNCHANGED cache
        /\ UNCHANGED_UI

\* the except clause handing the lines read so far to the callback
WReadError_DeliversPartial(r) ==
    LET w == workers[r]
    IN  /\ w.pc = "read"
        /\ uiq' = FinishRun(Unexpected(uiq, r, w), r, w, Some(Join(w.full_output)))
        /\ workers' = [workers EXCEPT ![r].pc = "done",
                                      ![r].raised = "readline: Exception"]
        /\ UNCHANGED cache
        /\ UNCHANGED_UI

\* readline raises: `except Exception` with output_str still None
WReadError(r) ==
    LET w == workers[r]
    IN  /\ w.pc = "read"
        /\ uiq' = FinishRun(Unexpected(uiq, r, w), r, w, w.output_str)
        /\ workers' = [workers EXCEPT ![r].pc = "done",
                                      ![r].raised = "readline: Exception"]
        /\ UNCHANGED cache
        /\ UNCHANGED_UI

\* the generic report tested first: a non-zero exit is reported by its code
\* whatever the transcript holds
Classify_ExitCodeFirst(q, r, rc, text) ==
    IF rc # 0
    THEN Append(q, ConsoleMsg(r, ExitCodeText, <<>>))
    ELSE q

\* the reports of a finished process, by exit code and transcript
Classify(q, r, rc, text) ==
    IF rc # 0 /\ ContainsMarker(text)
    THEN Append(Append(q, ConsoleMsg(r, IncorrectText, <<>>)),
                AlertMsg(r, "Authentication Failed"))
    ELSE IF rc # 0
         THEN Append(q, ConsoleMsg(r, ExitCodeText, <<>>))
         ELSE q

\* readline returns '': stdout closed, process waited, output joined and
\* classified; without a cache write the worker runs to its end
WExit(r, rc) ==
    LET w == workers[r]
        text == Join(w.full_output)
        q1 == Classify(uiq, r, rc, text)
    IN  /\ w.pc = "read"
        /\ IF ShouldStore(w, text)
           THEN /\ uiq' = q1
                /\ workers' = [workers EXCEPT ![r].pc = "cache_open",
                                              ![r].returncode = rc,
                                              ![r].output_str = Some(text)]
           ELSE /\ uiq' = FinishRun(q1, r, w, Some(text))
                /\ workers' = [workers EXCEPT ![r].pc = "done",
                                              ![r].returncode = rc,
                                              ![r].output_str = Some(text)]
        /\ UNCHANGED cache
        /\ UNCHANGED_UI

\* open(cache_path, 'w'): the file exists and is empty until the write
WCacheOpen(r) ==
    LET w == workers[r]
    IN  /\ w.pc = "cache_open"
        /\ cache' = [cache EXCEPT ![w.cache_key] = Some(<<>>)]
        /\ workers' = [workers EXCEPT ![r].pc = "cache_write"]
        /\ UNCHANGED uiq
        /\ UNCHANGED_UI

\* open(cache_path, 'w') raises: `except Exception` with output_str set
WCacheOpenError(r) ==
    LET w == workers[r]
    IN  /\ w.pc = "cache_open"
        /\ uiq' = FinishRun(Unexpected(uiq, r, w), r, w, w.output_str)
        /\ workers' = [workers EXCEPT ![r].pc = "done",
                                      ![r].raised = "open: Exception"]
        /\ UNCHANGED cache
        /\ UNCHANGED_UI

\* open(cache_path, 'w') raises FileNotFoundError (a key with a "/" names a
\* directory that does not exist): caught by the first except clause, which
\* reports a missing command
WCacheOpenNotFound(r) ==
    LET w == workers[r]
        q1 == Append(uiq, ConsoleMsg(r, NotFoundText, <<w.command[1]>>))
        q2 == Append(q1, AlertMsg(r, "Command Not Found"))
    IN  /\ w.pc = "cache_open"
        /\ uiq' = FinishRun(q2, r, w, w.output_str)
        /\ workers' = [workers EXCEPT ![r].pc = "done",
                                      ![r].raised = "open: FileNotFoundError"]
        /\ UNCHANGED cache
        /\ UNCHANGED_UI

\* f.write(output_str) and the close of the file; then the end of _execute
WCacheWrite(r) ==
    LET w == workers[r]
    IN  /\ w.pc = "cache_write"
        /\ cache' = [cache EXCEPT ![w.cache_key] =
                        Some(Overlay(FileWrite(TheText(w.output_str)), TheText(@)))]
        /\ uiq' = FinishRun(uiq, r, w, w.output_str)
        /\ workers' = [workers EXCEPT ![r].pc = "done", ![r].stored = TRUE]
        /\ UNCHANGED_UI

----------------------------------------------------------------------------
(* The UI thread: Tk runs the posted calls one at a time, in the order posted; *)
(* the nested event loop of an open dialog keeps running them.                 *)

Posted(op) == uiq # <<>> /\ Head(uiq).op = op

\* the dispatched call is recorded for its request
Dispatched == [seen EXCEPT ![Head(uiq).req] = Append(@, Head(uiq))]

UNCHANGED_APP == UNCHANGED <<package_queue, jobs, chain, dlog>>

\* App.set_busy
UiSetBusy ==
    /\ Posted("set_busy")
    /\ busy' = Head(uiq).flag
    /\ uiq' = Tail(uiq)
    /\ seen' = Dispatched
    /\ UNCHANGED <<workers, modal, cache, status>>
    /\ UNCHANGED_APP

\* App.update_status
UiUpdateStatus ==
    /\ Posted("update_status")
    /\ status' = Head(uiq).kind
    /\ uiq' = Tail(uiq)
    /\ seen' = Dispatched
    /\ UNCHANGED <<workers, modal, cache, busy>>
    /\ UNCHANGED_APP

\* App.log_to_console
UiLogToConsole ==
    /\ Posted("log_to_console")
    /\ uiq' = Tail(uiq)
    /\ seen' = Dispatched
    /\ UNCHANGED <<workers, modal, cache, busy, status>>
    /\ UNCHANGED_APP

\* the request's log_callback; the chain's is dialog.append_log
UiLogCallback ==
    /\ Posted("log_callback")
    /\ uiq' = Tail(uiq)
    /\ seen' = Dispatched
    /\ dlog' = IF workers[Head(uiq).req].callback = "run_next_job"
               THEN dlog \o Head(uiq).text ELSE dlog
    /\ UNCHANGED <<workers, modal, cache, busy, status, package_queue, jobs, chain>>

Dialog(kind, r) == [kind |-> kind, req |-> r, dismissed |-> FALSE, result |-> NoValue]

\* messagebox.showerror: a modal box, its call returns when the box is closed
UiShowError ==
    /\ Posted("showerror")
    /\ modal' = Append(modal, Dialog("alert", Head(uiq).req))
    /\ uiq' = Tail(uiq)
    /\ seen' = Dispatched
    /\ UNCHANGED <<workers, cache, busy, status>>
    /\ UNCHANGED_APP

\* get_password: PasswordDialog(...).get_input() enters wait_window
UiGetPassword ==
    /\ Posted("get_password")
    /\ modal' = Append(modal, Dialog("password", Head(uiq).req))
    /\ uiq' = Tail(uiq)
    /\ seen' = Dispatched
    /\ UNCHANGED <<workers, cache, busy, status>>
    /\ UNCHANGED_APP

\* PasswordDialog._ok_event: result = entry.get(), destroy
UserOk(i, typed) ==
    /\ i \in 1..Len(modal)
    /\ modal[i].kind = "password" /\ ~modal[i].dismissed
    /\ modal' = [modal EXCEPT ![i].dismissed = TRUE, ![i].result = typed]
    /\ UNCHANGED <<workers, seen, uiq, cache, busy, status>>
    /\ UNCHANGED_APP

\* PasswordDialog._cancel_event (Cancel button or window close): result = None
UserCancel(i) ==
    /\ i \in 1..Len(modal)
    /\ modal[i].kind = "password" /\ ~modal[i].dismissed
    /\ modal' = [modal EXCEPT ![i].dismissed = TRUE, ![i].result = NoValue]
    /\ UNCHANGED <<workers, seen, uiq, cache, busy, status>>
    /\ UNCHANGED_APP

\* the user closes a messagebox
UserAck(i) ==
    /\ i \in 1..Len(modal)
    /\ modal[i].kind = "alert" /\ ~modal[i].dismissed
    /\ modal' = [modal EXCEPT ![i].dismissed = TRUE]
    /\ UNCHANGED <<workers, seen, uiq, cache, busy, status>>
    /\ UNCHANGED_APP

\* get_password storing the value and returning without password_event.set()
UiModalReturn_NoSignal ==
    LET d == modal[Len(modal)]
    IN  /\ modal # <<>>
        /\ d.dismissed
        /\ modal' = SubSeq(modal, 1, Len(modal) - 1)
        /\ workers' = IF d.kind = "password"
                      THEN [workers EXCEPT ![d.req].password_ref = d.result]
                      ELSE workers
        /\ UNCHANGED <<seen, uiq, cache, busy, status>>
        /\ UNCHANGED_APP

\* the innermost nested event loop ends once its window is destroyed; for a
\* PasswordDialog get_password goes on: password_ref[0] = pwd, password_event.set()
UiModalReturn ==
    LET d == modal[Len(modal)]
    IN  /\ modal # <<>>
        /\ d.dismissed
        /\ modal' = SubSeq(modal, 1, Len(modal) - 1)
        /\ workers' = IF d.kind = "password"
                      THEN [workers EXCEPT ![d.req].password_ref = d.result,
                                           ![d.req].password_event = TRUE]
                      ELSE workers
        /\ UNCHANGED <<seen, uiq, cache, busy, status>>
        /\ UNCHANGED_APP

\* a completion callback other than run_next_job (the parsers of the lists)
UiCallback ==
    /\ Posted("callback")
    /\ workers[Head(uiq).req].callback # "run_next_job"
    /\ uiq' = Tail(uiq)
    /\ seen' = Dispatched
    /\ UNCHANGED <<workers, modal, cache, busy, status>>
    /\ UNCHANGED_APP

----------------------------------------------------------------------------
(* App: the pending queue and process_queue *)

\* package names
Pkgs == {"vim", "gimp"}

\* refresh_installed_list dropping its argument: the installed query never forced
RefreshInstalledList_NeverForced(force) ==
    << NewWorker(<<"yay", "-Qu">>, "_parse_upgradable_system", FALSE, NoValue,
                 NoValue, TRUE, FALSE, TRUE),
       NewWorker(<<"pacman", "-Q">>, "parse_and_display_installed", FALSE, "pacman",
                 "installed_pacman.cache", FALSE, FALSE, TRUE) >>

\* App.refresh_installed_list in MODE_SYSTEM: the upgradable query, then the
\* installed query
RefreshInstalledList(force) ==
    << NewWorker(<<"yay", "-Qu">>, "_parse_upgradable_system", FALSE, NoValue,
                 NoValue, TRUE, FALSE, TRUE),
       NewWorker(<<"pacman", "-Q">>, "parse_and_display_installed", FALSE, "pacman",
                 "installed_pacman.cache", force, FALSE, TRUE) >>

IsInQueue(pkg_name) == \E i \in 1..Len(package_queue) : package_queue[i].pkg_name = pkg_name

\* add_to_queue without the test of is_in_queue
AddToQueue_NoCheck(action, pkg_name, source) ==
    /\ package_queue' = Append(package_queue,
                               [action |-> action, pkg_name |-> pkg_name, source |-> source])
    /\ status' = "Added"
    /\ UNCHANGED <<workers, seen, uiq, modal, cache, busy, jobs, chain, dlog>>

AddToQueue(action, pkg_name, source) ==
    /\ package_queue' =
          IF IsInQueue(pkg_name) THEN package_queue
          ELSE Append(package_queue,
                      [action |-> action, pkg_name |-> pkg_name, source |-> source])
    /\ status' = IF IsInQueue(pkg_name) THEN "already in the queue" ELSE "Added"
    /\ UNCHANGED <<workers, seen, uiq, modal, cache, busy, jobs, chain, dlog>>

RemoveFromQueue(pkg_name) ==
    LET Keep(p) == p.pkg_name # pkg_name
    IN  /\ package_queue' = SelectSeq(package_queue, Keep)
        /\ status' = "Removed"
        /\ UNCHANGED <<workers, seen, uiq, modal, cache, busy, jobs, chain, dlog>>

ClearQueue ==
    /\ package_queue' = <<>>
    /\ status' = "Queue cleared."
    /\ UNCHANGED <<workers, seen, uiq, modal, cache, busy, jobs, chain, dlog>>

\* the comprehension without its test of the source
Names_AnySource(queue, action, flatpak) ==
    LET Pick(p) == p.action = action
        picked == SelectSeq(queue, Pick)
    IN  [i \in 1..Len(picked) |-> picked[i].pkg_name]

\* [p['pkg_name'] for p in queue_copy if p['action'] == action and flatpak-or-not]
Names(queue, action, flatpak) ==
    LET Pick(p) == p.action = action /\ ((p.source = "flatpak") = flatpak)
        picked == SelectSeq(queue, Pick)
    IN  [i \in 1..Len(picked) |-> picked[i].pkg_name]

Job(prefix, names, sudo) ==
    IF names = <<>> THEN <<>> ELSE << [cmd |-> prefix, pkgs |-> names, sudo |-> sudo] >>

\* the list `jobs` built by process_queue
Jobs(queue) ==
    Job(<<"yay", "-S", "--noconfirm">>, Names(queue, "install", FALSE), TRUE)
    \o Job(<<"pacman", "-Rns", "--noconfirm">>, Names(queue, "remove", FALSE), TRUE)
    \o Job(<<"flatpak", "install", "flathub", "-y", "--verbose">>,
           Names(queue, "install", TRUE), FALSE)
    \o Job(<<"flatpak", "uninstall", "-y", "--verbose">>,
           Names(queue, "remove", TRUE), FALSE)

\* the worker run_next_job starts for a job
JobWorker(job) ==
    NewWorker(job.cmd \o job.pkgs,
              "run_next_job", TRUE, NoValue, NoValue, TRUE, job.sudo, FALSE)

\* run_next_job taking the last job of the list (jobs.pop() for jobs.pop(0))
RunNextJob_PopsLast(js, sn) ==
    IF js = <<>>
    THEN /\ dlog' = Append(dlog, "All operations complete.")
         /\ chain' = "complete"
         /\ jobs' = js
         /\ Run(workers, sn, RefreshInstalledList(TRUE))
    ELSE /\ jobs' = SubSeq(js, 1, Len(js) - 1)
         /\ Run(workers, sn, <<JobWorker(js[Len(js)])>>)
         /\ chain' = "running"
         /\ UNCHANGED dlog

\* run_next_job returning at once when the job that has just completed
\* exited with a non-zero code
RunNextJob_AbortsOnFailure(js, sn) ==
    IF uiq # <<>> /\ workers[Head(uiq).req].returncode # 0
    THEN /\ jobs' = js
         /\ chain' = "aborted"
         /\ workers' = workers
         /\ seen' = sn
         /\ UNCHANGED dlog
    ELSE IF js = <<>>
         THEN /\ dlog' = Append(dlog, "All operations complete.")
              /\ chain' = "complete"
              /\ jobs' = js
              /\ Run(workers, sn, RefreshInstalledList(TRUE))
         ELSE /\ jobs' = Tail(js)
              /\ Run(workers, sn, <<JobWorker(Head(js))>>)
              /\ chain' = "running"
              /\ UNCHANGED dlog

\* run_next_job with the list js, after the UI state sn: the terminal branch
\* or the next job
RunNextJob(js, sn) ==
    IF js = <<>>
    THEN /\ dlog' = Append(dlog, "All operations complete.")
         /\ chain' = "complete"
         /\ jobs' = js
         /\ Run(workers, sn, RefreshInstalledList(TRUE))
    ELSE /\ jobs' = Tail(js)
         /\ Run(workers, sn, <<JobWorker(Head(js))>>)
         /\ chain' = "running"
         /\ UNCHANGED dlog

\* App.process_queue; one chain per behaviour
ProcessQueue ==
    /\ chain = "none"
    /\ IF package_queue = <<>>
       THEN UNCHANGED vars
       ELSE /\ package_queue' = <<>>
            /\ status' = "Queue cleared."
            /\ RunNextJob(Jobs(package_queue), seen)
            /\ UNCHANGED <<uiq, modal, cache, busy>>

\* run_next_job building jobs from the pending queue each time it is called
UiRunNextJob_RereadsQueue ==
    /\ Posted("callback")
    /\ workers[Head(uiq).req].callback = "run_next_job"
    /\ uiq' = Tail(uiq)
    /\ RunNextJob(jobs \o Jobs(package_queue), Dispatched)
    /\ package_queue' = <<>>
    /\ UNCHANGED <<modal, cache, busy, status>>

\* the completion callback of a chain job: run_next_job(output, source)
UiRunNextJob ==
    /\ Posted("callback")
    /\ workers[Head(uiq).req].callback = "run_next_job"
    /\ uiq' = Tail(uiq)
    /\ RunNextJob(jobs, Dispatched)
    /\ UNCHANGED <<modal, cache, busy, status, package_queue>>

\* completion_callback of run_update: dialog.on_complete(), a console line,
\* refresh_installed_list(force=True)
UiCompletionCallback ==
    /\ Posted("callback")
    /\ workers[Head(uiq).req].callback = "completion_callback"
    /\ uiq' = Tail(uiq)
    /\ Run(workers, Dispatched, RefreshInstalledList(TRUE))
    /\ UNCHANGED <<modal, cache, busy, status>>
    /\ UNCHANGED_APP

\* parse_and_display_installed and the other parsers of the lists
UiParserCallback ==
    /\ Posted("callback")
    /\ workers[Head(uiq).req].callback # "completion_callback"
    /\ UiCallback

----------------------------------------------------------------------------
(* Specifications *)

\* the cache directory outlives the program: a file holds what an earlier run
\* stored, which was not blank
StoredTexts == {<<"pkg 0.9<LF>", "vim 9.1<LF>">>}

Init ==
    /\ workers = <<>>
    /\ seen = <<>>
    /\ uiq = <<>>
    /\ modal = <<>>
    /\ cache \in [Keys -> {NoText} \cup {Some(t) : t \in StoredTexts}]
    /\ busy = FALSE
    /\ status = ""
    /\ package_queue = <<>>
    /\ jobs = <<>>
    /\ chain = "none"
    /\ dlog = <<>>

\* a UI action that calls command_runner.run, with any arguments; this
\* specification follows one request from its start to its end
UserRun(callback, log_callback, cache_key, force_refresh, requires_sudo, set_global_busy) ==
    /\ workers = <<>>
    /\ Run(workers, seen,
           << NewWorker(<<"pacman", "-Q">>, callback, log_callback,
                        IF cache_key = NoValue THEN NoValue ELSE "pacman",
                        cache_key, force_refresh, requires_sudo, set_global_busy) >>)
    /\ UNCHANGED <<uiq, modal, cache, busy, status, package_queue, jobs, chain, dlog>>

\* the cached queries of the UI (populate_groups, search_group, the info
\* dialog, the installed list): a callback, a cache key, no sink, no elevation
UserQuery(cache_key, force_refresh) ==
    /\ workers = <<>>
    /\ Run(workers, seen,
           << NewWorker(<<"pacman", "-Sg">>, "callback", FALSE, NoValue,
                        cache_key, force_refresh, FALSE, TRUE) >>)
    /\ UNCHANGED <<uiq, modal, cache, busy, status, package_queue, jobs, chain, dlog>>

\* the same query asked again, without force_refresh, once the worker of the
\* first has ended, its calls were dispatched and its message boxes closed
UserRepeat ==
    /\ Len(workers) = 1
    /\ workers[1].pc \in {"done", "crashed"}
    /\ uiq = <<>> /\ modal = <<>>
    /\ Run(workers, seen,
           << NewWorker(workers[1].command, workers[1].callback, FALSE, NoValue,
                        workers[1].cache_key, FALSE, FALSE, TRUE) >>)
    /\ UNCHANGED <<uiq, modal, cache, busy, status, package_queue, jobs, chain, dlog>>

\* the steps of a worker that is not elevated
Execute(r) ==
    \/ WStart(r)
    \/ WCacheHit(r)
    \/ WCacheReadError(r)
    \/ WMiss(r)
    \/ WSpawnNotFound(r)
    \/ WSpawnError(r)
    \/ \E delivered \in BOOLEAN : WSpawn(r, delivered)
    \/ \E raw \in RawLines : WReadLine(r, raw)
    \/ WReadError(r)
    \/ \E rc \in {0, 1} : WExit(r, rc)

\* the cache write of a worker with a cache key
Store(r) ==
    \/ WCacheOpen(r)
    \/ WCacheOpenError(r)
    \/ WCacheOpenNotFound(r)
    \/ WCacheWrite(r)

Worker(r) == r \in Requests /\ (Execute(r) \/ WPassword(r) \/ Store(r))

\* dispatch of the calls every executed request posts
Ui ==
    \/ UiUpdateStatus
    \/ UiLogToConsole
    \/ UiShowError
    \/ UiModalReturn

\* the secret prompt
Prompt ==
    \/ UiGetPassword
    \/ \E i \in 1..Len(modal), typed \in Secrets \cup {""} : UserOk(i, typed)
    \/ \E i \in 1..Len(modal) : UserCancel(i)

UserAcks == \E i \in 1..Len(modal) : UserAck(i)

\* one request with any arguments
Next ==
    \/ \E callback \in {NoValue, "callback"}, log_callback \in BOOLEAN,
          cache_key \in Keys \cup {NoValue}, force_refresh \in BOOLEAN,
          requires_sudo \in BOOLEAN, set_global_busy \in BOOLEAN :
            UserRun(callback, log_callback, cache_key, force_refresh,
                    requires_sudo, set_global_busy)
    \/ \E r \in Requests : Execute(r) \/ WPassword(r) \/ Store(r)
    \/ Ui
    \/ UiSetBusy
    \/ UiCallback
    \/ UiLogCallback
    \/ Prompt
    \/ UserAcks

\* the scheduler runs every live thread, Tk runs every posted call, and a
\* dialog that is open is eventually answered
Fairness ==
    /\ \A r \in 1..(Cardinality(Pkgs) + 2) : WF_vars(Worker(r))
    /\ WF_vars(Ui \/ UiSetBusy \/ UiCallback \/ UiLogCallback \/ UiGetPassword)
    /\ WF_vars(\E i \in 1..Len(modal) : UserCancel(i) \/ UserAck(i))

Spec == Init /\ [][Next]_vars /\ Fairness

\* a cached query and the same query again
NextRepeat ==
    \/ \E cache_key \in Keys, force_refresh \in BOOLEAN : UserQuery(cache_key, force_refresh)
    \/ UserRepeat
    \/ \E r \in Requests : Execute(r) \/ Store(r)
    \/ Ui
    \/ UiSetBusy
    \/ UiCallback
    \/ UserAcks

SpecRepeat == Init /\ [][NextRepeat]_vars /\ Fairness

\* the requests of the chain
ChainJobs == {r \in Requests : workers[r].callback = "run_next_job"}

\* the pending queue, edited until it is processed, and one process_queue
\* chain, followed up to the start of its final refresh
NextChain ==
    \/ /\ chain = "none"
       /\ \/ \E action \in {"install", "remove"}, pkg_name \in Pkgs,
                source \in {"pacman", "flatpak"} : AddToQueue(action, pkg_name, source)
          \/ \E pkg_name \in Pkgs : RemoveFromQueue(pkg_name)
          \/ ClearQueue
    \/ ProcessQueue
    \/ UiRunNextJob
    \/ \E r \in ChainJobs : Execute(r) \/ WPassword(r)
    \/ Ui
    \/ UiLogCallback
    \/ Prompt
    \/ UserAcks

SpecChain == Init /\ [][NextChain]_vars /\ Fairness

\* run_update of show_update_confirmation in system mode: the elevated update,
\* with the dialog's sink and its completion callback
UpdateWorker ==
    NewWorker(<<"pacman", "-Syu", "--noconfirm">>, "completion_callback", TRUE,
              NoValue, NoValue, TRUE, TRUE, FALSE)

UserUpdate ==
    /\ workers = <<>>
    /\ Run(workers, seen, <<UpdateWorker>>)
    /\ UNCHANGED <<uiq, modal, cache, busy, status, package_queue, jobs, chain, dlog>>

\* the update asked again once the first has ended and the UI is at rest
UserUpdateAgain ==
    /\ Len(workers) = 1
    /\ workers[1].pc \in {"done", "crashed"}
    /\ uiq = <<>> /\ modal = <<>>
    /\ Run(workers, seen, <<UpdateWorker>>)
    /\ UNCHANGED <<uiq, modal, cache, busy, status, package_queue, jobs, chain, dlog>>

\* what the user may type when asked twice: the password, or another one
Passwords == Secrets \cup {"swordfish"}

\* two elevated updates, one after the other, each with its own prompt
NextUpdate ==
    \/ UserUpdate
    \/ UserUpdateAgain
    \/ \E r \in Requests : Execute(r) \/ WPassword(r)
    \/ Ui
    \/ UiCallback
    \/ UiLogCallback
    \/ UiGetPassword
    \/ \E i \in 1..Len(modal), typed \in Passwords : UserOk(i, typed)
    \/ \E i \in 1..Len(modal) : UserCancel(i)
    \/ UserAcks

SpecUpdate == Init /\ [][NextUpdate]_vars /\ Fairness

\* one elevated request with any other arguments
NextElevated ==
    \/ \E callback \in {NoValue, "callback"}, log_callback \in BOOLEAN,
          cache_key \in Keys \cup {NoValue}, force_refresh \in BOOLEAN,
          set_global_busy \in BOOLEAN :
            UserRun(callback, log_callback, cache_key, force_refresh, TRUE, set_global_busy)
    \/ \E r \in Requests : Execute(r) \/ WPassword(r) \/ Store(r)
    \/ Ui
    \/ UiSetBusy
    \/ UiCallback
    \/ UiLogCallback
    \/ Prompt
    \/ UserAcks

SpecElevated == Init /\ [][NextElevated]_vars /\ Fairness

\* run_update of show_update_confirmation in flatpak mode: not elevated, with
\* the dialog's sink and its completion callback
FlatpakUpdateWorker ==
    NewWorker(<<"flatpak", "update", "-y", "--verbose">>, "completion_callback", TRUE,
              NoValue, NoValue, TRUE, FALSE, FALSE)

\* show_update_confirmation: the query of the upgradable packages
UserListUpdates ==
    /\ workers = <<>>
    /\ Run(workers, seen,
           << NewWorker(<<"flatpak", "remote-ls", "--updates">>, "on_list_fetched", FALSE,
                        NoValue, NoValue, TRUE, FALSE, TRUE) >>)
    /\ UNCHANGED <<uiq, modal, cache, busy, status, package_queue, jobs, chain, dlog>>

\* the update started while the query is anywhere between its start and its
\* end: the two threads run side by side
UserFlatpakUpdate ==
    /\ Len(workers) = 1
    /\ Run(workers, seen, <<FlatpakUpdateWorker>>)
    /\ UNCHANGED <<uiq, modal, cache, busy, status, package_queue, jobs, chain, dlog>>

\* two requests in flight at once, one of them with a sink
NextOverlap ==
    \/ UserListUpdates
    \/ UserFlatpakUpdate
    \/ \E r \in Requests : Execute(r)
    \/ Ui
    \/ UiSetBusy
    \/ UiCallback
    \/ UiLogCallback
    \/ UserAcks

SpecOverlap == Init /\ [][NextOverlap]_vars /\ Fairness

\* the elevated update started while the query is anywhere between its start
\* and its end
UserSystemUpdate ==
    /\ Len(workers) = 1
    /\ Run(workers, seen, <<UpdateWorker>>)
    /\ UNCHANGED <<uiq, modal, cache, busy, status, package_queue, jobs, chain, dlog>>

\* two requests in flight at once, one of them elevated; the two processes
\* start and their pipes are read to the end
NextOverlapSudo ==
    \/ UserListUpdates
    \/ UserSystemUpdate
    \/ \E r \in Requests :
          \/ WStart(r) \/ WPassword(r) \/ WMiss(r)
          \/ \E delivered \in BOOLEAN : WSpawn(r, delivered)
          \/ \E raw \in RawLines : WReadLine(r, raw)
          \/ \E rc \in {0, 1} : WExit(r, rc)
    \/ Ui
    \/ UiSetBusy
    \/ UiCallback
    \/ UiLogCallback
    \/ Prompt
    \/ UserAcks

SpecOverlapSudo == Init /\ [][NextOverlapSudo]_vars /\ Fairness

\* the "Refresh Lists" button, the end of an update or of a chain (force), a
\* change of mode (no force): refresh_installed_list while nothing runs
UserRefresh(force) ==
    /\ workers = <<>>
    /\ Run(workers, seen, RefreshInstalledList(force))
    /\ UNCHANGED <<uiq, modal, cache, busy, status, package_queue, jobs, chain, dlog>>

\* refresh_installed_list once more, while the queries of the first are
\* anywhere between their start and their end
UserRefreshAgain(force) ==
    /\ Len(workers) = 2
    /\ Run(workers, seen, RefreshInstalledList(force))
    /\ UNCHANGED <<uiq, modal, cache, busy, status, package_queue, jobs, chain, dlog>>

\* the installed-list queries: the requests with the key installed_pacman.cache
InstalledQueries == {r \in Requests : workers[r].cache_key # NoValue}

\* two refreshes side by side, their installed-list queries followed
NextRace ==
    \/ \E force \in BOOLEAN : UserRefresh(force)
    \/ \E force \in BOOLEAN : UserRefreshAgain(force)
    \/ \E r \in InstalledQueries : Execute(r) \/ Store(r)
    \/ Ui
    \/ UiSetBusy
    \/ UiCallback
    \/ UserAcks

SpecRace == Init /\ [][NextRace]_vars /\ Fairness

\* the requests followed to their end: the jobs of the chain, the update, and
\* the installed-list query of the refresh they end with
Followed ==
    {r \in Requests : workers[r].callback \in
        {"run_next_job", "completion_callback", "parse_and_display_installed"}}

\* a chain of one flatpak job, or the system update, each followed through the
\* refresh_installed_list(force=True) of its end
NextEnd ==
    \/ /\ workers = <<>> /\ chain = "none"
       /\ \E action \in {"install", "remove"} : AddToQueue(action, "vim", "flatpak")
    \/ workers = <<>> /\ ProcessQueue
    \/ chain = "none" /\ package_queue = <<>> /\ UserUpdate
    \/ UiRunNextJob
    \/ UiCompletionCallback
    \/ UiParserCallback
    \/ \E r \in Followed : Execute(r) \/ WPassword(r) \/ Store(r)
    \/ Ui
    \/ UiSetBusy
    \/ UiLogCallback
    \/ Prompt
    \/ UserAcks

SpecEnd == Init /\ [][NextEnd]_vars /\ Fairness

\* flatpak packages queued before the chain and while it runs (the dialog of
\* the chain takes the input grab only 20 ms after it opens), one chain
NextSnapshot ==
    \/ /\ chain = "none"
       /\ \E action \in {"install", "remove"}, pkg_name \in Pkgs :
             AddToQueue(action, pkg_name, "flatpak")
    \/ chain = "running" /\ AddToQueue("install", "gimp", "flatpak")
    \/ ProcessQueue
    \/ UiRunNextJob
    \/ \E r \in ChainJobs :
          \/ WStart(r) \/ WMiss(r)
          \/ \E delivered \in BOOLEAN : WSpawn(r, delivered)
          \/ \E raw \in RawLines : WReadLine(r, raw)
          \/ \E rc \in {0, 1} : WExit(r, rc)
    \/ Ui
    \/ UiLogCallback
    \/ UserAcks

SpecSnapshot == Init /\ [][NextSnapshot]_vars /\ Fairness

\* the pending queue edited before and after process_queue; the workers of
\* the chain are not followed
NextQueue ==
    \/ \E action \in {"install", "remove"}, pkg_name \in Pkgs,
          source \in {"pacman", "flatpak"} : AddToQueue(action, pkg_name, source)
    \/ \E pkg_name \in Pkgs : RemoveFromQueue(pkg_name)
    \/ ClearQueue
    \/ ProcessQueue

SpecQueue == Init /\ [][NextQueue]_vars /\ Fairness

----------------------------------------------------------------------------
(* Properties *)

\* the calls request r has posted so far: those dispatched, then those waiting
PostedBy(r) ==
    LET Mine(m) == m.req = r
    IN  seen[r] \o SelectSeq(uiq, Mine)

Ops(r, op) ==
    LET Is(m) == m.op = op
    IN  SelectSeq(PostedBy(r), Is)

Ended(r) == workers[r].pc = "done"

\* C1: every request that supplies a completion callback has the callback
\* posted to the UI thread by the time its worker has run to its end, whatever
\* the outcome (stated for a finished worker: the callback is posted or was
\* dispatched).
C1_CallbackOnEveryOutcome ==
    \A r \in Requests :
        (Ended(r) /\ workers[r].callback # NoValue) => Ops(r, "callback") # <<>>

\* C6: an elevated request whose prompt returned None spawns no process and
\* completes with an empty transcript.
C6_CancelledElevation ==
    \A r \in Requests :
        LET w == workers[r]
        IN  (w.requires_sudo /\ w.password_event /\ w.password_ref = NoValue
             /\ w.pc # "wait_password")
            => /\ w.pc = "done"
               /\ w.spawned = 0
               /\ w.argv = <<>>
               /\ Ops(r, "update_status") = <<>>
               /\ w.callback # NoValue =>
                     /\ Len(Ops(r, "callback")) = 1
                     /\ Ops(r, "callback")[1].text = <<>>

C6_Witness ==
    \E r \in Requests :
        /\ workers[r].password_event /\ workers[r].password_ref = NoValue
        /\ workers[r].pc = "done"
        /\ \E i \in 1..Len(seen[r]) : seen[r][i].op = "callback"

\* C7: a request with force_refresh never takes the cache branch, whatever the
\* cache holds: past the cache test it is on the execution branch, and a
\* callback it posts there carries the lines read from the process it spawned.
C7_ForceRefreshNeverHits ==
    \A r \in Requests :
        LET w == workers[r]
        IN  w.force_refresh =>
              /\ w.path # "cache"
              /\ w.pc \notin {"start", "wait_password", "check_cache"} =>
                    w.path \in {"exec", "cancelled"}
              /\ (w.path = "exec" /\ Ops(r, "callback") # <<>>) =>
                    /\ w.spawned = 1
                    /\ Ops(r, "callback")[1].text = w.full_output

C7_Witness ==
    \E r \in Requests :
        /\ workers[r].force_refresh
        /\ workers[r].cache_key # NoValue
        /\ cache[workers[r].cache_key] \in {Some(t) : t \in StoredTexts}
        /\ workers[r].full_output # <<>>
        /\ \E i \in 1..Len(seen[r]) : seen[r][i].op = "callback"

\* C8: a request with a cache key, no force_refresh and an entry for the key
\* spawns nothing; its sink, when it has one, gets one call with the whole
\* cached text; the status is the from-cache status; the callback gets the
\* cached text.
C8_CacheHit ==
    \A r \in Requests :
        LET w == workers[r]
        IN  /\ (w.pc = "check_cache" /\ w.cache_key # NoValue /\ ~w.force_refresh
                /\ cache[w.cache_key] # NoText) => ~ENABLED WMiss(r)
            /\ (w.path = "cache" /\ w.pc = "done") =>
                  /\ w.spawned = 0
                  /\ Ops(r, "log_callback") =
                        IF w.log_callback
                        THEN <<LogMsg(r, TheText(cache[w.cache_key]))>> ELSE <<>>
                  /\ Ops(r, "update_status") = <<StatusMsg(r, "Ready (from cache)", <<>>)>>
                  /\ Ops(r, "callback") =
                        IF w.callback # NoValue
                        THEN <<CallbackMsg(r, TheText(cache[w.cache_key]), w.source)>>
                        ELSE <<>>

C8_Witness ==
    \E r \in Requests :
        /\ workers[r].path = "cache"
        /\ workers[r].log_callback
        /\ \E i \in 1..Len(seen[r]) : seen[r][i].op = "log_callback"
        /\ \E i \in 1..Len(seen[r]) : seen[r][i].op = "callback"
        /\ status = "Ready (from cache)"

\* C10: an executed run with a cache key whose transcript is empty or only
\* whitespace leaves the cache as it was: no step of that worker creates or
\* overwrites an entry.
C10_BlankNotStored ==
    [][ \A r \in Requests :
          ( /\ workers[r].path = "exec"
            /\ workers[r].cache_key # NoValue
            /\ workers'[r].output_str # NoText
            /\ \A i \in 1..Len(workers'[r].full_output) :
                  workers'[r].full_output[i] = " <LF>" )
          => /\ cache' = cache
             /\ workers'[r].pc = "done" ]_vars

C10_Witness ==
    \E r \in Requests :
        /\ workers[r].pc = "done"
        /\ workers[r].returncode = 0
        /\ workers[r].output_str = Some(<<" <LF>">>)
        /\ workers[r].cache_key # NoValue
        /\ cache[workers[r].cache_key] = NoText

----------------------------------------------------------------------------
(* Properties of the cache across two requests *)

\* C9: once a run with key K has stored its transcript T, the same query asked
\* again without force_refresh, with no write to K in between, completes with
\* exactly T.
C9_CacheRoundTrip ==
    (Len(workers) = 2 /\ workers[1].stored
     /\ workers[2].path = "cache" /\ workers[2].pc = "done")
    => /\ workers[2].output_str = workers[1].output_str
       /\ Ops(2, "callback") =
             <<CallbackMsg(2, workers[1].full_output, workers[2].source)>>

C9_Witness ==
    /\ Len(workers) = 2
    /\ workers[1].stored
    /\ workers[1].full_output = <<"pkg 1.0<LF>">>
    /\ workers[2].path = "cache"
    /\ \E i \in 1..Len(seen[2]) : seen[2][i].op = "callback"

----------------------------------------------------------------------------
(* Properties of the process_queue chain *)

\* the command of a job as run_next_job passed it, without the elevation prefix
JobCommand(r) ==
    LET c == workers[r].command
    IN  IF c[1] = "sudo" THEN SubSeq(c, 3, Len(c)) ELSE c

\* the place of a command in the order in which process_queue builds the jobs
Rank(cmd) ==
    IF cmd[1] = "yay" THEN 1
    ELSE IF cmd[1] = "pacman" THEN 2
    ELSE IF cmd[2] = "install" THEN 3
    ELSE 4

CallbackRan(r) == \E i \in 1..Len(seen[r]) : seen[r][i].op = "callback"

CallbackWaiting(r) == \E i \in 1..Len(uiq) : uiq[i].req = r /\ uiq[i].op = "callback"

InFlight(r) == workers[r].pc \notin {"done", "crashed"}

\* the text the sink of request r has been sent so far
RECURSIVE Texts(_)
Texts(msgs) == IF msgs = <<>> THEN <<>> ELSE Head(msgs).text \o Texts(Tail(msgs))

TotalJobs == Cardinality(ChainJobs) + Len(jobs)

\* C2: a chain that was started always reaches its terminal branch (stated for
\* a chain at rest: while the chain is running, one of its jobs is still in
\* flight or a completion callback of it is waiting to be dispatched).
C2_ChainNeverStalls ==
    chain = "running" =>
        \E r \in ChainJobs : InFlight(r) \/ CallbackWaiting(r)

\* C3: the jobs of a chain are started front to back, each once, the next one
\* only after the completion callback of the one before has run on the UI
\* thread, so that at most one job of the chain is in flight.
C3_OneJobAtATime ==
    /\ \A r1, r2 \in ChainJobs :
          r1 < r2 => /\ Rank(JobCommand(r1)) < Rank(JobCommand(r2))
                     /\ CallbackRan(r1)
                     /\ ~InFlight(r1)
    /\ \A r \in ChainJobs, j \in 1..Len(jobs) : Rank(JobCommand(r)) < Rank(jobs[j].cmd)
    /\ \A j1, j2 \in 1..Len(jobs) : j1 < j2 => Rank(jobs[j1].cmd) < Rank(jobs[j2].cmd)
    /\ Cardinality({r \in ChainJobs : InFlight(r)}) <= 1

C3_Witness ==
    /\ Cardinality(ChainJobs) = 2
    /\ \E r \in ChainJobs : workers[r].pc = "read" /\ workers[r].full_output # <<>>

NonZeroExit(r) ==
    /\ Ended(r)
    /\ workers[r].spawned = 1
    /\ workers[r].output_str # NoText
    /\ workers[r].returncode # 0
    /\ ~ContainsMarker(workers[r].full_output)

Succeeded(r) ==
    /\ Ended(r)
    /\ workers[r].spawned = 1
    /\ workers[r].output_str # NoText
    /\ workers[r].returncode = 0

\* C4: in a chain of two jobs whose first exits with a non-zero code, the
\* callback of the first is posted, its dispatch starts the second, and the
\* "All operations complete." line comes after the second has completed and
\* after everything the two jobs logged.
C4_FailedJobDoesNotStopChain ==
    (TotalJobs = 2 /\ 1 \in ChainJobs /\ NonZeroExit(1))
    => /\ Ops(1, "callback") # <<>>
       /\ CallbackRan(1) =>
             /\ 2 \in ChainJobs
             /\ Rank(JobCommand(1)) < Rank(JobCommand(2))
       /\ (2 \in ChainJobs /\ Succeeded(2) /\ CallbackRan(2)) =>
             chain = "complete"
       /\ chain = "complete" =>
             /\ 2 \in ChainJobs /\ Ended(2) /\ CallbackRan(2)
             /\ dlog = Texts(Ops(1, "log_callback")) \o Texts(Ops(2, "log_callback"))
                       \o <<"All operations complete.">>
       /\ chain # "complete" => "All operations complete." \notin {dlog[i] : i \in 1..Len(dlog)}

C4_Witness ==
    /\ TotalJobs = 2
    /\ 1 \in ChainJobs /\ NonZeroExit(1)
    /\ 2 \in ChainJobs /\ Succeeded(2)
    /\ workers[2].full_output = <<"pkg 1.0<LF>">>
    /\ chain = "complete"

ElevationFailed(r) ==
    /\ workers[r].requires_sudo
    /\ Ended(r)
    /\ \/ workers[r].path = "cancelled"
       \/ /\ workers[r].returncode # 0
          /\ workers[r].output_str # NoText
          /\ ContainsMarker(workers[r].full_output)

\* C5: when the elevation of a chain job was cancelled or failed, its callback
\* is still posted and its dispatch starts the next job; a later elevated job
\* asks for its secret with a prompt of its own and holds no secret before
\* that prompt was answered.
C5_LaterJobsPromptAfresh ==
    \A r \in ChainJobs :
        ElevationFailed(r) =>
          /\ Ops(r, "callback") # <<>>
          /\ CallbackRan(r) => ((\E r2 \in ChainJobs : r2 > r) \/ chain = "complete")
          /\ \A r2 \in ChainJobs :
                (r2 > r /\ workers[r2].requires_sudo) =>
                  /\ workers[r2].pc # "start" => Len(Ops(r2, "get_password")) = 1
                  /\ workers[r2].password_event =>
                        \E i \in 1..Len(seen[r2]) : seen[r2][i].op = "get_password"
                  /\ ~workers[r2].password_event =>
                        /\ workers[r2].password_ref = NoValue
                        /\ workers[r2].password = NoValue
                        /\ workers[r2].pc \in {"start", "wait_password"}

C5_Witness ==
    /\ 1 \in ChainJobs /\ ElevationFailed(1) /\ workers[1].path # "cancelled"
    /\ 2 \in ChainJobs /\ workers[2].requires_sudo
    /\ workers[2].password \in Secrets
    /\ workers[2].spawned = 1

----------------------------------------------------------------------------
(* Properties of the outcome of a run *)

\* the kinds of the calls of operation op that request r has posted
Kinds(r, op) == {Ops(r, op)[i].kind : i \in 1..Len(Ops(r, op))}

\* the process of r ran to its exit and its transcript was joined
Exited(r) == workers[r].path = "exec" /\ workers[r].output_str # NoText

AuthFailure(r) ==
    /\ Exited(r)
    /\ workers[r].returncode # 0
    /\ ContainsMarker(TheText(workers[r].output_str))

NotFound(r) == workers[r].raised = "Popen: FileNotFoundError"

\* C11: a run that exits with a non-zero code never creates or overwrites the
\* cache entry of its key: it does not reach the cache write.
C11_FailedRunsNotCached ==
    \A r \in Requests :
        (Exited(r) /\ workers[r].returncode # 0)
        => /\ workers[r].pc \notin {"cache_open", "cache_write"}
           /\ ~workers[r].stored

C13_AlertExactlyOnNotFoundOrAuthFailure ==
    \A r \in Requests :
        Ended(r) => (Ops(r, "showerror") # <<>> <=> (NotFound(r) \/ AuthFailure(r)))

----------------------------------------------------------------------------
(* Properties of the secret *)

\* a secret as it can stand in a text: alone, or as the line written to a process
SecretTexts == Passwords \cup {p \o "<LF>" : p \in Passwords}

\* a secret stands in a list of words or lines
Holds(tokens) == \E i \in 1..Len(tokens) : tokens[i] \in SecretTexts

\* a secret stands in a call posted to the UI thread
Mentions(m) == m.kind \in SecretTexts \/ Holds(m.text)

\* what request r shows of itself: its calls, its command and its transcript
Observed(r) ==
    [ posted  |-> [i \in 1..Len(PostedBy(r)) |-> [PostedBy(r)[i] EXCEPT !.req = 0]],
      command |-> workers[r].command,
      argv    |-> workers[r].argv,
      output  |-> workers[r].output_str ]

\* two ended runs of the same request whose processes behaved alike and whose
\* prompts were answered with different secrets
DifferOnlyInSecret(r1, r2) ==
    /\ Ended(r1) /\ Ended(r2)
    /\ workers[r1].password_ref \in Passwords
    /\ workers[r2].password_ref \in Passwords
    /\ workers[r1].password_ref # workers[r2].password_ref
    /\ workers[r1].raised = workers[r2].raised
    /\ workers[r1].spawned = workers[r2].spawned
    /\ (workers[r1].stdin = <<>>) = (workers[r2].stdin = <<>>)
    /\ workers[r1].full_output = workers[r2].full_output
    /\ workers[r1].returncode = workers[r2].returncode
    /\ (workers[r1].output_str = NoText) = (workers[r2].output_str = NoText)

\* C14: the secret entered for a request stands in no call posted to the UI
\* thread, no command, no transcript, no cache file, no status or dialog text;
\* the input of a process holds nothing but the secret of its own request; and
\* two runs that differ only in the secret show the same calls and command.
C14_SecretOnlyToOwnInput ==
    /\ \A r \in Requests :
          LET posted == PostedBy(r)
          IN  /\ workers[r].stdin \in {<<>>, <<workers[r].password_ref \o "<LF>">>}
              /\ ~Holds(workers[r].command)
              /\ ~Holds(workers[r].argv)
              /\ ~Holds(workers[r].full_output)
              /\ workers[r].output_str # NoText => ~Holds(TheText(workers[r].output_str))
              /\ \A i \in 1..Len(posted) : ~Mentions(posted[i])
    /\ \A k \in Keys : cache[k] # NoText => ~Holds(TheText(cache[k]))
    /\ status \notin Passwords
    /\ ~Holds(dlog)
    /\ \A r1, r2 \in Requests :
          DifferOnlyInSecret(r1, r2) => Observed(r1) = Observed(r2)

C14_Witness ==
    /\ Len(workers) = 2
    /\ DifferOnlyInSecret(1, 2)
    /\ workers[1].stdin = <<"hunter2<LF>">>
    /\ workers[2].stdin = <<"swordfish<LF>">>
    /\ workers[1].full_output = <<"pkg 1.0<LF>">>
    /\ CallbackRan(1) /\ CallbackRan(2)

\* the argument vector and the input of the process of an elevated request
\* whose prompt was answered with a secret
ElevatedSpawn(r) ==
    /\ workers[r].argv = <<"sudo", "-S">> \o UpdateWorker.command
    /\ workers[r].stdin \in {<<workers[r].password \o "<LF>">>, <<>>}
    /\ workers[r].full_output # <<>> => workers[r].spawned = 1

\* C15: the process of an elevated request is spawned with the wrapper words
\* before the original arguments, the secret and a newline are written to its
\* input before any output is read (the write may fail on a closed pipe), and
\* its input is closed before the read loop and the wait.
C15_ElevatedSpawnClosesInput ==
    \A r \in Requests :
        (workers[r].requires_sudo /\ workers[r].spawned = 1)
        => /\ ElevatedSpawn(r)
           /\ ~workers[r].stdin_open

----------------------------------------------------------------------------
(* Properties of the dispatch to the UI thread *)

\* the thread of request r takes a step of _execute
WorkerStep(r) ==
    \/ workers'[r].pc # workers[r].pc
    \/ workers'[r].full_output # workers[r].full_output

\* the UI state a request acts on changes: busy flag, status bar, dialog log,
\* an opened alert or prompt, a call run for a request, the answer of a prompt
UiEffect ==
    \/ busy' # busy
    \/ status' # status
    \/ dlog' # dlog
    \/ Len(modal') > Len(modal)
    \/ \E r \in Requests :
          \/ seen'[r] # seen[r]
          \/ workers'[r].password_ref # workers[r].password_ref
          \/ workers'[r].password_event # workers[r].password_event

\* C16: a step of a worker thread changes no UI state, and every change of UI
\* state for a request is the UI thread running the call at the head of its
\* dispatch queue (or, for the answer of a prompt, get_password going on when
\* its dialog has closed).
C16_UiEffectsOnlyByDispatch ==
    [][ /\ \A r \in Requests : WorkerStep(r) => ~UiEffect
        /\ UiEffect =>
              \/ /\ uiq # <<>>
                 /\ uiq' = Tail(uiq)
                 /\ seen'[Head(uiq).req] = Append(seen[Head(uiq).req], Head(uiq))
              \/ /\ modal # <<>>
                 /\ modal[Len(modal)].kind = "password"
                 /\ \E i \in 1..Len(seen[modal[Len(modal)].req]) :
                       seen[modal[Len(modal)].req][i].op = "get_password"
                 /\ modal' = SubSeq(modal, 1, Len(modal) - 1)
                 /\ UNCHANGED <<uiq, seen, busy, status, dlog>> ]_vars

C16_Witness ==
    \E r \in Requests :
        /\ workers[r].pc = "read"
        /\ workers[r].requires_sudo /\ workers[r].password \in Secrets
        /\ busy
        /\ status = "Running"
        /\ \E i \in 1..Len(seen[r]) : seen[r][i].op = "log_callback"

----------------------------------------------------------------------------
(* Properties of the order of the calls of one request *)

IsPrefix(a, b) == Len(a) <= Len(b) /\ SubSeq(b, 1, Len(a)) = a

\* the lines the sink of r was called with among the calls `calls`
SinkLines(calls) ==
    LET IsLog(m) == m.op = "log_callback"
    IN  Texts(SelectSeq(calls, IsLog))

----------------------------------------------------------------------------
(* Properties of the rendezvous between a worker and its prompt *)

\* the dialog of request r, open or closed, while get_input has not returned
PromptOf(r) == {i \in 1..Len(modal) : modal[i].kind = "password" /\ modal[i].req = r}

\* the dialog of request r was answered with OK or Cancel
Dismissed(r) == \E i \in PromptOf(r) : modal[i].dismissed

\* the worker of r is past password_event.wait()
Resumed(r) == r \in Requests /\ workers[r].pc \notin {"start", "wait_password"}

\* one prompt per elevated request; nothing is read before the signal
RendezvousState ==
    \A r \in Requests :
        LET w == workers[r]
        IN  /\ Len(Ops(r, "get_password")) =
                  IF w.requires_sudo /\ w.pc # "start" THEN 1 ELSE 0
            /\ Cardinality(PromptOf(r)) <= 1
            /\ ~w.password_event =>
                  /\ w.password_ref = NoValue
                  /\ w.password = NoValue
                  /\ w.requires_sudo => w.pc \in {"start", "wait_password"}
            /\ w.password_event =>
                  /\ PromptOf(r) = {}
                  /\ \E i \in 1..Len(seen[r]) : seen[r][i].op = "get_password"

\* the value is stored and the event set in one step of the UI thread, once,
\* when the dialog of the request has been dismissed and its loop returns
RendezvousStep ==
    \A r \in Requests :
        (\/ workers'[r].password_event # workers[r].password_event
         \/ workers'[r].password_ref # workers[r].password_ref)
        => /\ ~workers[r].password_event
           /\ workers'[r].password_event
           /\ modal # <<>>
           /\ modal[Len(modal)] = [kind |-> "password", req |-> r, dismissed |-> TRUE,
                                   result |-> workers'[r].password_ref]
           /\ modal' = SubSeq(modal, 1, Len(modal) - 1)
           /\ workers'[r].pc = workers[r].pc

\* C18: each elevated request posts one prompt; the UI thread stores the value
\* entered and sets the event of the worker once, after the dialog was
\* dismissed; the worker reads nothing before the event is set; and once the
\* dialog is dismissed the waiting worker resumes.
C18_ElevationRendezvous ==
    /\ []RendezvousState
    /\ [][RendezvousStep]_vars
    /\ Dismissed(1) ~> Resumed(1)

C18_Witness ==
    /\ Resumed(1)
    /\ workers[1].password_event
    /\ workers[1].pc = "read" /\ workers[1].password = "hunter2"
    /\ workers[1].stdin = <<"hunter2<LF>">>
    /\ modal = <<>>

----------------------------------------------------------------------------
(* Properties of the faults of a worker *)

\* the fault raised in the worker of r was caught: the worker reported it on
\* the console and ran to the end of _execute, clearing busy if it had set it
FaultCaught(r) ==
    /\ workers[r].pc = "done"
    /\ Kinds(r, "log_to_console") \cap {NotFoundText, UnexpectedText} # {}
    /\ workers[r].set_global_busy =>
          Ops(r, "set_busy") = <<SetBusyMsg(r, TRUE), SetBusyMsg(r, FALSE)>>

\* C19: every fault raised in a worker (missing executable, spawn error, read
\* error, cache file read or write error) is caught in the worker and reported;
\* no worker thread ends with the exception before its completion and
\* busy-clearing steps.
C19_FaultsCaughtInWorker ==
    \A r \in Requests :
        /\ workers[r].pc # "crashed"
        /\ workers[r].raised # "" => FaultCaught(r)

----------------------------------------------------------------------------
(* Properties of the end of a request *)

\* among the calls the UI thread has run for r, the completion callback came
\* before set_busy(False)
CallbackThenIdle(r) ==
    \A i, j \in 1..Len(seen[r]) :
        (seen[r][i] = SetBusyMsg(r, FALSE) /\ seen[r][j].op = "callback") => j < i

\* C20: for a request that set busy, on every path (cache hit, executed run,
\* cancelled elevation) the UI thread runs the completion callback before
\* set_busy(False).
C20_CallbackBeforeBusyCleared ==
    \A r \in Requests : workers[r].set_global_busy => CallbackThenIdle(r)

----------------------------------------------------------------------------
(* Properties of the end of the process_queue chain *)

\* how many times the terminal line stands in the dialog of the chain
CompleteLines == Cardinality({i \in 1..Len(dlog) : dlog[i] = "All operations complete."})

\* the workers refresh_installed_list(force=True) has started
FinalRefreshes == {r \in Requests : workers[r] \in
                     {RefreshInstalledList(TRUE)[i] : i \in 1..Len(RefreshInstalledList(TRUE))}}

\* every job was started, has ended, and no call of a job waits for the UI thread
ChainAtRest ==
    /\ chain # "none"
    /\ jobs = <<>>
    /\ \A r \in ChainJobs : ~InFlight(r)
    /\ \A i \in 1..Len(uiq) : uiq[i].req \notin ChainJobs

\* the terminal branch ran: line and refresh, with no job unstarted or in flight
ChainTerminal ==
    /\ jobs = <<>>
    /\ \A r \in ChainJobs : ~InFlight(r) /\ CallbackRan(r)
    /\ CompleteLines = 1
    /\ Cardinality(FinalRefreshes) = Len(RefreshInstalledList(TRUE))

\* C21: in one chain the terminal line is written once and the final refresh
\* is started once, neither of them while a job is unstarted or in flight
\* (before the terminal branch there is no line and no refresh; a chain whose
\* jobs have all ended has run it).
C21_TerminalBranchOnce ==
    /\ CompleteLines <= 1
    /\ (CompleteLines = 1 \/ FinalRefreshes # {}) => ChainTerminal
    /\ ChainAtRest => ChainTerminal

----------------------------------------------------------------------------
(* Properties of a cache miss *)

\* a request with a key and without force_refresh that found no entry, whose
\* process exited with code 0 and a transcript that is not blank, and that met
\* no fault on its way to the end
MissThatSucceeded(r) ==
    /\ Ended(r)
    /\ workers[r].cache_key # NoValue
    /\ ~workers[r].force_refresh
    /\ Exited(r)
    /\ workers[r].returncode = 0
    /\ ~StripIsEmpty(TheText(workers[r].output_str))
    /\ workers[r].raised = ""

\* C22: a request with a cache key and no entry for it, whose process succeeds
\* with a transcript T that is not blank, runs the process once, leaves T
\* under its key and passes T to its completion callback.
C22_MissStoresAndDelivers ==
    \A r \in Requests :
        MissThatSucceeded(r) =>
            /\ workers[r].spawned = 1
            /\ workers[r].output_str = Some(workers[r].full_output)
            /\ cache[workers[r].cache_key] = Some(workers[r].full_output)
            /\ workers[r].callback # NoValue =>
                  Ops(r, "callback") =
                      <<CallbackMsg(r, workers[r].full_output, workers[r].source)>>

C22_Witness ==
    \E r \in Requests :
        /\ MissThatSucceeded(r)
        /\ workers[r].full_output = <<"pkg 1.0<LF>">>
        /\ cache[workers[r].cache_key] = Some(<<"pkg 1.0<LF>">>)
        /\ CallbackRan(r)

----------------------------------------------------------------------------
(* Properties of the threads *)

\* a call of CommandRunner.run has returned: one more thread, at the start of
\* _execute, with nothing dispatched for it; the other threads, the posted
\* calls and the UI state are as they were
RunReturned ==
    /\ Len(workers') = Len(workers) + 1
    /\ SubSeq(workers', 1, Len(workers)) = workers
    /\ workers'[Len(workers')].pc = "start"
    /\ workers'[Len(workers')].spawned = 0
    /\ seen' = Append(seen, <<>>)
    /\ UNCHANGED <<uiq, modal, cache, busy, status, package_queue, jobs, chain, dlog>>

\* the next step of the UI thread: the call at the head of the posted ones
UiDispatch ==
    \/ Ui
    \/ UiSetBusy
    \/ UiCallback
    \/ UiLogCallback
    \/ UiGetPassword

----------------------------------------------------------------------------
(* Properties of the order of prompt, busy signal and cache test *)

\* request r has a cache key with an entry that r did not write itself, and
\* does not force a refresh: the request the cache can answer
Answerable(r) ==
    /\ workers[r].cache_key # NoValue
    /\ ~workers[r].force_refresh
    /\ workers[r].path # "exec"
    /\ cache[workers[r].cache_key] # NoText

\* C24: for a request that requires elevation and whose cache key has an
\* entry, with force_refresh false, no secret prompt is posted and, once the
\* worker has ended, its callback was given the text of the entry.
C24_BrokerOnlyOnMiss ==
    \A r \in Requests :
        (workers[r].requires_sudo /\ Answerable(r)) =>
            /\ Ops(r, "get_password") = <<>>
            /\ (Ended(r) /\ workers[r].callback # NoValue) =>
                  Ops(r, "callback") =
                      <<CallbackMsg(r, FileRead(TheText(cache[workers[r].cache_key])),
                                    workers[r].source)>>

\* C25: a request answered from the cache has posted no set_busy(True).
C25_BusyOnlyOnExecution ==
    \A r \in Requests :
        workers[r].path = "cache" =>
            \A i \in 1..Len(PostedBy(r)) : PostedBy(r)[i] # SetBusyMsg(r, TRUE)

----------------------------------------------------------------------------
(* Properties of the execution path *)

\* the process of r was started with a password to hand over, and the write to
\* its input raised
WriteFailed(r) ==
    /\ workers[r].requires_sudo
    /\ ~NotPassword(workers[r].password)
    /\ workers[r].spawned = 1
    /\ workers[r].stdin = <<>>

\* the faults that may follow the write: of the read loop, of the cache file
LaterFaults == {"readline: Exception", "open: FileNotFoundError", "open: Exception"}

\* C26: when the write of the secret to the process's input fails, the run
\* goes on: the worker is in the read loop or past it, nothing is reported as
\* an unexpected error or a missing command unless a later fault is raised,
\* and once the worker has ended without a read fault the process has exited,
\* the transcript is the lines read, the outcome is classified by exit code
\* and transcript, and the callback was given the transcript.
C26_WriteFailureSwallowed ==
    \A r \in Requests :
        WriteFailed(r) =>
            /\ workers[r].pc \in {"read", "cache_open", "cache_write", "done"}
            /\ workers[r].raised \in {""} \cup LaterFaults
            /\ workers[r].raised = "" =>
                  Kinds(r, "log_to_console") \cap {UnexpectedText, NotFoundText} = {}
            /\ (Ended(r) /\ workers[r].raised # "readline: Exception") =>
                  /\ Exited(r)
                  /\ workers[r].output_str = Some(workers[r].full_output)
                  /\ (IncorrectText \in Kinds(r, "log_to_console")) =
                        (workers[r].returncode # 0 /\ ContainsMarker(workers[r].full_output))
                  /\ (ExitCodeText \in Kinds(r, "log_to_console")) =
                        (workers[r].returncode # 0 /\ ~ContainsMarker(workers[r].full_output))
                  /\ workers[r].callback # NoValue =>
                        Ops(r, "callback") =
                            <<CallbackMsg(r, workers[r].full_output, workers[r].source)>>

C26_Witness ==
    \E r \in Requests :
        /\ WriteFailed(r)
        /\ Ended(r)
        /\ workers[r].raised = ""
        /\ workers[r].returncode # 0
        /\ workers[r].full_output = <<"sudo: 1 incorrect password attempt<LF>">>
        /\ CallbackRan(r)

\* the calls of the sink posted for r so far, as one text
Forwarded(r) == SinkLines(PostedBy(r))

\* the line the `except Exception` clause hands to the sink
ReportLine(r) ==
    IF workers[r].raised \in {"Popen: Exception", "readline: Exception", "open: Exception"}
    THEN <<UnexpectedText \o "<LF>">>
    ELSE <<>>

\* the text given to the completion callback of r
Delivered(r) == Ops(r, "callback")[1].text

----------------------------------------------------------------------------
(* Properties of the cache files under concurrent requests *)

\* the requests other than r that have written their transcript under key k
Writers(r, k) ==
    {q \in Requests \ {r} : workers[q].cache_key = k /\ workers[q].stored}

\* the complete texts a read of key k by r may return: what the directory held
\* at the start, or the transcript another request has stored
CompleteTexts(r, k) ==
    {FileRead(t) : t \in StoredTexts}
        \cup {FileRead(FileWrite(TheText(workers[q].output_str))) : q \in Writers(r, k)}

\* C28: a request answered from the cache is given a complete transcript that
\* an earlier run stored under its key, also when another worker rewrites the
\* key at the same time: never an empty or partial text.
C28_HitDeliversStoredTranscript ==
    \A r \in Requests :
        (workers[r].path = "cache" /\ workers[r].output_str # NoText) =>
            /\ TheText(workers[r].output_str) \in CompleteTexts(r, workers[r].cache_key)
            /\ Ops(r, "callback") # <<>> =>
                  Delivered(r) \in CompleteTexts(r, workers[r].cache_key)

\* a step changes only the entry of the key of a request that takes a step
CacheFrame ==
    \A k \in Keys :
        cache'[k] # cache[k] =>
            \E r \in Requests :
                /\ workers'[r].pc # workers[r].pc
                /\ workers[r].cache_key = k

\* the requests with key k have all ended and some of them wrote the entry
AllWritten(k) ==
    /\ \A r \in Requests : workers[r].cache_key = k => workers[r].pc = "done"
    /\ \E r \in Requests : workers[r].cache_key = k /\ workers[r].stored

\* C29: a run with cache key K changes no entry but that of K, a run without
\* a cache key changes no entry, and once the workers that write the same key
\* have ended the entry is the transcript of one of them.
C29_WritesIsolatedLastWriterWins ==
    /\ [][CacheFrame]_vars
    /\ [](\A k \in Keys :
            AllWritten(k) =>
                \E r \in Requests :
                    /\ workers[r].cache_key = k /\ workers[r].stored
                    /\ cache[k] = Some(FileWrite(TheText(workers[r].output_str))))

----------------------------------------------------------------------------
(* Properties of the jobs built by process_queue *)

\* the number of words of a job's command before its package names
PrefixLen(cmd) == IF Rank(cmd) \in {1, 2} THEN 3 ELSE IF Rank(cmd) = 3 THEN 5 ELSE 4

\* the job a worker of the chain was started for
JobOf(w) ==
    [cmd |-> SubSeq(w.command, 1, PrefixLen(w.command)),
     pkgs |-> SubSeq(w.command, PrefixLen(w.command) + 1, Len(w.command)),
     sudo |-> w.requires_sudo]

\* the job a pending package belongs to: system installs, system removes,
\* flatpak installs, flatpak removes
RankOf(p) ==
    IF p.source # "flatpak"
    THEN (IF p.action = "install" THEN 1 ELSE 2)
    ELSE (IF p.action = "install" THEN 3 ELSE 4)

\* the places of package p of the queue in the jobs js: job and position
Places(p, js) ==
    {<<j, i>> \in (1..Len(js)) \X (1..Cardinality(Pkgs)) :
        i <= Len(js[j].pkgs) /\ js[j].pkgs[i] = p.pkg_name}

\* js is what the claim says process_queue makes of the pending queue
WellFormedJobs(queue, js) ==
    /\ Len(js) <= 4
    /\ \A j \in 1..Len(js) :
          /\ js[j].pkgs # <<>>
          /\ js[j].sudo = (Rank(js[j].cmd) \in {1, 2})
          /\ \A i \in 1..Len(js[j].pkgs) :
                \E n \in 1..Len(queue) : queue[n].pkg_name = js[j].pkgs[i]
    /\ \A j, k \in 1..Len(js) : j < k => Rank(js[j].cmd) < Rank(js[k].cmd)
    /\ \A n \in 1..Len(queue) :
          /\ Cardinality(Places(queue[n], js)) = 1
          /\ \A pl \in Places(queue[n], js) : Rank(js[pl[1]].cmd) = RankOf(queue[n])
    /\ \A m, n \in 1..Len(queue) :
          \A pm \in Places(queue[m], js), pn \in Places(queue[n], js) :
              (m < n /\ pm[1] = pn[1]) => pm[2] < pn[2]

\* C30: when process_queue has run on a pending queue that is not empty, the
\* job it started and the jobs it left to run are at most four, in the order
\* system installs, system removes, flatpak installs, flatpak removes; none
\* has an empty package list; every pending package is in exactly one of
\* them, the one of its action and source, in queue order within it; the
\* system jobs are elevated and the flatpak jobs are not; the queue is empty.
C30_JobsFromQueue ==
    [][(chain = "none" /\ chain' # "none") =>
          /\ package_queue # <<>>
          /\ package_queue' = <<>>
          /\ Len(workers') = Len(workers) + 1
          /\ WellFormedJobs(package_queue,
                            <<JobOf(workers'[Len(workers')])>> \o jobs')]_vars

C30_Witness ==
    /\ chain = "running"
    /\ package_queue = <<>>
    /\ Len(workers) = 1
    /\ workers[1].pc = "start"
    /\ workers[1].command = <<"pacman", "-Rns", "--noconfirm", "gimp">>
    /\ workers[1].requires_sudo
    /\ jobs = << [cmd |-> <<"flatpak", "install", "flathub", "-y", "--verbose">>,
                  pkgs |-> <<"vim">>, sudo |-> FALSE] >>

----------------------------------------------------------------------------
(* Properties of the busy state of the UI *)

\* request r asked for the global busy state, the UI thread has run its
\* set_busy(True), and its worker is still running
BusyHeld(r) ==
    /\ workers[r].set_global_busy
    /\ InFlight(r)
    /\ \E i \in 1..Len(seen[r]) : seen[r][i] = SetBusyMsg(r, TRUE)

\* C31: while a request that asked for the global busy state, and whose
\* set_busy(True) has run, is still in flight, the UI is busy: the end of
\* another busy-marking request does not enable the controls again.
C31_BusyWhileAnyInFlight ==
    (\E r \in Requests : BusyHeld(r)) => busy

\* the thread of r has stopped: at the end of _execute or by an exception
Stopped(r) == ~InFlight(r)

\* C32: a request that posted set_busy(True) has posted set_busy(False) by the
\* time its worker has stopped, whatever the path; once every worker has
\* stopped, every posted call was dispatched and every dialog is closed, the
\* UI is not busy (stated for stopped workers: "eventually" is the end of the
\* thread).
C32_BusyAlwaysCleared ==
    /\ \A r \in Requests :
          (Stopped(r) /\ Ops(r, "set_busy") # <<>>) =>
              Ops(r, "set_busy") = <<SetBusyMsg(r, TRUE), SetBusyMsg(r, FALSE)>>
    /\ ((\A r \in Requests : Stopped(r)) /\ uiq = <<>> /\ modal = <<>>) => ~busy

----------------------------------------------------------------------------
(* Properties of the completion callback *)

\* C33: the completion callback of a request is posted at most once; on the
\* execution path it is posted only by a worker at the end of _execute whose
\* read loop ran to the end of the output and whose process was waited on
\* (the transcript was joined and the exit code taken), and it is given all
\* the lines read.
C33_CallbackOnceAfterExit ==
    \A r \in Requests :
        /\ Len(Ops(r, "callback")) <= 1
        /\ (workers[r].path = "exec" /\ Ops(r, "callback") # <<>>) =>
              /\ workers[r].pc = "done"
              /\ Exited(r)
              /\ workers[r].raised \notin
                    {"Popen: FileNotFoundError", "Popen: Exception", "readline: Exception"}
              /\ Delivered(r) = workers[r].full_output

C33_Witness ==
    \E r \in Requests :
        /\ workers[r].path = "exec"
        /\ Exited(r)
        /\ workers[r].returncode = 1
        /\ workers[r].full_output = <<"pkg 1.0<LF>">>
        /\ Len(Ops(r, "callback")) = 1
        /\ CallbackRan(r)

----------------------------------------------------------------------------
(* Properties of the refresh at the end of a chain or an update *)

\* the step is the terminal branch of run_next_job, or the dispatch of the
\* completion callback of an update
EndStep ==
    \/ chain # "complete" /\ chain' = "complete"
    \/ /\ Posted("callback")
       /\ workers[Head(uiq).req].callback = "completion_callback"
       /\ uiq' = Tail(uiq)

\* the installed-list query among the workers a step has started
StartedQuery ==
    {r \in (Len(workers) + 1)..Len(workers') :
        workers'[r].command = <<"pacman", "-Q">>
        /\ workers'[r].cache_key = "installed_pacman.cache"}

\* C34: the end of a chain and the end of an update start the installed-list
\* query once, with force_refresh true; that query never takes the cache
\* branch, and the text given to its callback is the transcript of its own
\* process, run once, not the text the cache held before.
C34_FinalRefreshIsFresh ==
    /\ [][EndStep =>
            /\ Cardinality(StartedQuery) = 1
            /\ \A r \in StartedQuery : workers'[r].force_refresh /\ workers'[r].pc = "start"]_vars
    /\ [](\A r \in InstalledQueries :
            /\ workers[r].force_refresh
            /\ workers[r].path # "cache"
            /\ Ops(r, "callback") # <<>> =>
                  /\ Exited(r)
                  /\ workers[r].spawned = 1
                  /\ Delivered(r) = workers[r].full_output
                  /\ Delivered(r) \notin {FileRead(t) : t \in StoredTexts})

C34_Witness ==
    \E r \in InstalledQueries :
        /\ chain = "complete"
        /\ CallbackRan(r)
        /\ Delivered(r) = <<" <LF>">>
        /\ cache[workers[r].cache_key] \in {Some(t) : t \in StoredTexts}

----------------------------------------------------------------------------
(* Properties of the snapshot taken by process_queue *)

\* the package names of a job list, job after job
RECURSIVE JobPkgs(_)
JobPkgs(js) == IF js = <<>> THEN <<>> ELSE Head(js).pkgs \o JobPkgs(Tail(js))

\* the step starts the job at the head of the list and nothing else
StartsHeadJob ==
    /\ jobs # <<>>
    /\ jobs' = Tail(jobs)
    /\ Len(workers') = Len(workers) + 1
    /\ JobOf(workers'[Len(workers')]) = Head(jobs)
    /\ workers'[Len(workers')].pc = "start"

\* the step is the terminal branch: no job is left and the refresh is started
StartsRefresh ==
    /\ jobs = <<>> /\ jobs' = <<>>
    /\ chain' = "complete"
    /\ \A r \in (Len(workers) + 1)..Len(workers') :
          workers'[r].callback # "run_next_job"

\* C35: the step of process_queue that starts the chain empties the pending
\* queue, and the job it starts and the jobs it leaves hold the packages that
\* were pending and no other; from then on the job list only loses its head,
\* to the worker started for it, no started job changes its command, a step
\* of the chain leaves the pending queue as it is and a package queued
\* meanwhile changes neither the jobs nor the workers; while no chain has
\* started and nothing is pending, no step starts a worker, writes the
\* terminal line or starts a refresh.
C35_QueueSnapshot ==
    /\ [][(chain = "none" /\ chain' # "none") =>
            LET all == JobPkgs(<<JobOf(workers'[Len(workers')])>> \o jobs')
            IN  /\ package_queue # <<>>
                /\ package_queue' = <<>>
                /\ Len(all) = Len(package_queue)
                /\ \A n \in 1..Len(package_queue) :
                      \E i \in 1..Len(all) : all[i] = package_queue[n].pkg_name]_vars
    /\ [][chain # "none" =>
            /\ \A r \in Requests : workers'[r].command = workers[r].command
            /\ (jobs' # jobs \/ Len(workers') # Len(workers)) =>
                  /\ StartsHeadJob \/ StartsRefresh
                  /\ package_queue' = package_queue
            /\ package_queue' # package_queue => (workers' = workers /\ jobs' = jobs)]_vars
    /\ [][(chain = "none" /\ package_queue = <<>>) =>
            (workers' = workers /\ dlog' = dlog /\ chain' = "none")]_vars

C35_Witness ==
    /\ chain = "complete"
    /\ package_queue = << [action |-> "install", pkg_name |-> "gimp", source |-> "flatpak"] >>
    /\ Len(workers) = 3
    /\ JobOf(workers[1]).pkgs = <<"vim">>
    /\ \A r \in ChainJobs : CallbackRan(r)

----------------------------------------------------------------------------
(* Properties of the pending queue *)

\* the entries of the queue with the name n
Entries(queue, n) == {i \in 1..Len(queue) : queue[i].pkg_name = n}

\* the queue without its entries of name n, the others in their order
Without(queue, n) ==
    LET Other(p) == p.pkg_name # n
    IN  SelectSeq(queue, Other)

\* C36: the pending queue never holds two entries of one name; a step that
\* changes it appends one entry whose name was not pending, or removes all
\* the entries of one name and nothing else, or empties it; a step that
\* reports a name as already queued leaves the queue as it was.
C36_QueueNamesUnique ==
    /\ [](\A n \in Pkgs : Cardinality(Entries(package_queue, n)) <= 1)
    /\ [][package_queue' # package_queue =>
            \/ /\ Len(package_queue') = Len(package_queue) + 1
               /\ SubSeq(package_queue', 1, Len(package_queue)) = package_queue
               /\ Entries(package_queue, package_queue'[Len(package_queue')].pkg_name) = {}
               /\ status' = "Added"
            \/ /\ status' = "Removed"
               /\ \E n \in Pkgs :
                     /\ Entries(package_queue, n) # {}
                     /\ package_queue' = Without(package_queue, n)
            \/ /\ status' = "Queue cleared."
               /\ package_queue' = <<>>]_vars
    /\ [][status' = "already in the queue" => package_queue' = package_queue]_vars

C36_Witness ==
    /\ status = "already in the queue"
    /\ Len(package_queue) = 2
    /\ package_queue[1].pkg_name = "gimp"
    /\ package_queue[2] = [action |-> "remove", pkg_name |-> "vim", source |-> "flatpak"]
    /\ chain = "running"

----------------------------------------------------------------------------
(* Properties of the declined prompt *)

\* the calls a request posts when its prompt is cancelled, in order
CancelCalls(r) ==
    LET w == workers[r]
    IN  (IF w.set_global_busy THEN <<SetBusyMsg(r, TRUE)>> ELSE <<>>)
        \o <<PromptMsg(r), ConsoleMsg(r, CancelledText, <<>>)>>
        \o (IF w.log_callback THEN <<LogMsg(r, <<CancelledText \o "<LF>">>)>> ELSE <<>>)
        \o (IF w.set_global_busy THEN <<SetBusyMsg(r, FALSE)>> ELSE <<>>)
        \o (IF w.callback # NoValue THEN <<CallbackMsg(r, <<>>, w.source)>> ELSE <<>>)

\* the worker of r has taken the answer of its prompt
Answered(r) ==
    /\ workers[r].requires_sudo
    /\ workers[r].pc \notin {"start", "wait_password"}

\* C37: a request whose prompt was confirmed with the empty string ends as one
\* whose prompt was cancelled: the worker is at its end, no process was
\* spawned, and its calls are those of the cancellation, with the
\* cancellation message logged and the callback given an empty transcript.
C37_EmptySecretIsCancel ==
    \A r \in Requests :
        (Answered(r) /\ workers[r].password \in {NoValue, ""}) =>
            /\ workers[r].pc = "done"
            /\ workers[r].path = "cancelled"
            /\ workers[r].spawned = 0
            /\ workers[r].argv = <<>>
            /\ PostedBy(r) = CancelCalls(r)

C37_Witness ==
    \E r \in Requests :
        /\ Answered(r)
        /\ workers[r].password = ""
        /\ workers[r].log_callback
        /\ CallbackRan(r)
        /\ Delivered(r) = <<>>
        /\ workers[r].cache_key \in Keys
        /\ cache[workers[r].cache_key] # NoText

====
